---------------------------- MODULE Spec2Model ----------------------------
(***************************************************************************)
(* A model of debcargo's feature-dependency resolver (reduce_provides,     *)
(* collapse_features) and of its debian/changelog reconciler               *)
(* (prepare_debian_folder), both in src/src/debian/mod.rs.                 *)
(***************************************************************************)
EXTENDS Integers, Sequences, FiniteSets, TLC

VARIABLES
    pc,                   \* position of the resolver run
    orig,                 \* orig_features_with_deps: the crate's feature graph
    features_with_deps,   \* the working / reduced graph
    rev_provides,         \* the local `provides` map before the closure
    provided,             \* the local `provided` vector
    provides,             \* the returned provides map
    peer,                 \* feature graph of a second source package
    marked,               \* config: test_is_broken of every feature
    packages,             \* debian/control: the packages, in order
    tests,                \* debian/tests/control: the tests, in order
    error,                \* the fatal error of the run, if any
    options,              \* the overlay and the flags of prepare_debian_folder
    overlay_dir,          \* the files of the overlay directory
    tempdir,              \* the files of the temporary directory
    new_hints,            \* the hint files written in this run
    debian,               \* what <pkg_srcdir>/debian holds
    changelog,            \* debian/changelog: entries, newest first
    file,                 \* debian/changelog: what the file holds
    truncated,            \* how much the latest run cut off the file
    edits,                \* how many times the file was edited by hand
    lastrun               \* inputs and branch of the latest reconciler run

vars == <<pc, orig, features_with_deps, rev_provides, provided, provides,
          peer, marked, packages, tests, error, options, overlay_dir, tempdir,
          new_hints, debian, changelog, file, truncated, edits, lastrun>>

controlVars == <<marked, packages, tests, error>>

folderVars == <<options, overlay_dir, tempdir, new_hints, debian>>

resolverVars == <<pc, orig, features_with_deps, rev_provides, provided,
                  provides, peer, controlVars, folderVars>>

changelogVars == <<changelog, file, truncated, edits, lastrun>>

----------------------------------------------------------------------------
(* Bounds of the model *)

MaxFeatures == 2      \* non-base features in a feature graph
MaxGraphSize == 3     \* entries of all the lists of a feature graph together
MaxLines == 5         \* line-items of all the entries of a changelog
MaxEdits == 1         \* edits the maintainer makes by hand
MaxChunks == 3        \* entries of a history file somebody else wrote

----------------------------------------------------------------------------
(* Feature names.  BTreeMap<&str, _> iterates in the byte order of the     *)
(* names; NameOrder lists the names of the model in that order.            *)

NameOrder == <<"", "a", "bx", "by", "default", "std">>

\* The names the features of this crate are drawn from.
Features == {"", "a", "default", "std"}

Rank(f) == CHOOSE i \in 1..Len(NameOrder) : NameOrder[i] = f

\* The elements of a set of names as a vector in ascending order.
RECURSIVE SortedSeq(_)
SortedSeq(S) ==
    IF S = {} THEN <<>>
    ELSE LET m == CHOOSE x \in S : \A y \in S : Rank(x) <= Rank(y)
         IN <<m>> \o SortedSeq(S \ {m})

\* Insert a name into an ascending vector, keeping duplicates.
RECURSIVE InsertSorted(_, _)
InsertSorted(x, s) ==
    IF s = <<>> THEN <<x>>
    ELSE IF Rank(x) <= Rank(Head(s)) THEN <<x>> \o s
    ELSE <<Head(s)>> \o InsertSorted(x, Tail(s))

\* Vec::sort_unstable on a vector of names: ascending, duplicates kept.
RECURSIVE SortUnstable(_)
SortUnstable(s) ==
    IF s = <<>> THEN <<>> ELSE InsertSorted(Head(s), SortUnstable(Tail(s)))

Range(s) == {s[i] : i \in 1..Len(s)}

RECURSIVE Concat(_)
Concat(ss) == IF ss = <<>> THEN <<>> ELSE Head(ss) \o Concat(Tail(ss))

----------------------------------------------------------------------------
(* The feature graph: CrateDepInfo maps a feature to the pair              *)
(* (features_required, external_deps).  An external dependency names a     *)
(* crate and one of its features.                                          *)

Dep(c, f) == [crate |-> c, feature |-> f]

DepTokens == {Dep("libc", ""), Dep("B", "by")}

Sig(ffs, dds) == [ff |-> ffs, dd |-> dds]

\* The features reachable from f by one or more features_required edges.
RECURSIVE ReachFrom(_, _, _)
ReachFrom(g, frontier, seen) ==
    LET next == UNION {Range(g[f].ff) : f \in frontier} \ seen
    IN IF next = {} THEN seen ELSE ReachFrom(g, next, seen \cup next)

Reach(g, f) == ReachFrom(g, {f}, {})

Acyclic(g) == \A f \in DOMAIN g : f \notin Reach(g, f)

\* Sequences over S without repetition.
DistinctSeqs(S) ==
    UNION {{s \in [1..k -> S] : \A i, j \in 1..k : i /= j => s[i] /= s[j]} :
           k \in 0..Cardinality(S)}

\* The signatures a feature f of a crate with features K may have, with at
\* most n list entries: the base feature "" requires no feature, no
\* feature requires itself, no list names a thing twice.
SigsFor(K, f, n) ==
    {s \in {Sig(ffs, dds) :
                ffs \in IF f = "" THEN {<<>>} ELSE DistinctSeqs(K \ {f}),
                dds \in DistinctSeqs(DepTokens)} :
        Len(s.ff) + Len(s.dd) <= n}

\* The graphs over the features `todo` with at most n list entries.
RECURSIVE GraphsOver(_, _, _)
GraphsOver(K, todo, n) ==
    IF todo = {} THEN {<<>>}
    ELSE LET f == CHOOSE x \in todo : TRUE
         IN UNION {{(f :> s) @@ g :
                       g \in GraphsOver(K, todo \ {f}, n - Len(s.ff) - Len(s.dd))} :
                   s \in SigsFor(K, f, n)}

\* The graphs cargo can hand over: the base feature "" is present and
\* requires no feature, every required feature is a feature of the crate,
\* and the features_required edges form no cycle.
FeatureGraphs ==
    UNION {{g \in GraphsOver(K, K, MaxGraphSize) : Acyclic(g)} :
           K \in {K \in SUBSET Features :
                     "" \in K /\ Cardinality(K) <= MaxFeatures + 1}}

----------------------------------------------------------------------------
(* A second source package B, whose packages the external dependency       *)
(* Dep("B", "by") refers to.  Its feature "bx" may depend on the base      *)
(* feature of this crate (A); no feature of A depends on "bx", so the      *)
(* features of the two crates never form a cycle.                          *)

PeerGraphs ==
    {("" :> Sig(<<>>, <<>>)) @@ ("by" :> Sig(<<"">>, <<Dep("libc", "")>>)),
     ("" :> Sig(<<>>, <<>>)) @@ ("bx" :> Sig(<<"">>, <<Dep("A", "")>>))
        @@ ("by" :> Sig(<<"">>, <<Dep("libc", "")>>))}

----------------------------------------------------------------------------
(* reduce_provides *)

\* features_rev_deps: for every signature the features that have it, in
\* the order the BTreeMap yields them (ascending by name).
FeaturesRevDeps(g) ==
    {SortedSeq({f \in DOMAIN g : g[f] = g[k]}) : k \in DOMAIN g}

\* DedupGroup with the first feature of the group rewritten like the rest.
DedupGroupRewriteAll(g, grp) ==
    [f \in DOMAIN g |->
        IF f \in Range(grp) THEN Sig(<<grp[1]>>, <<>>) ELSE g[f]]

\* DedupGroup with the last feature of the group as the one that is kept.
DedupGroupKeepLast(g, grp) ==
    [f \in DOMAIN g |->
        IF f \in Range(grp) \ {grp[Len(grp)]}
        THEN Sig(<<grp[Len(grp)]>>, <<>>) ELSE g[f]]

\* One turn of the loop over features_rev_deps: every feature of the group
\* but the first becomes ([f0], []).
DedupGroup(g, grp) ==
    [f \in DOMAIN g |->
        IF f \in Range(Tail(grp)) THEN Sig(<<grp[1]>>, <<>>) ELSE g[f]]

\* DedupInOrder that stops after the first group the HashMap yields.
DedupFirstGroupOnly(g, order) ==
    IF order = <<>> THEN g ELSE DedupGroup(g, Head(order))

RECURSIVE DedupInOrder(_, _)
DedupInOrder(g, order) ==
    IF order = <<>> THEN g
    ELSE DedupInOrder(DedupGroup(g, Head(order)), Tail(order))

\* The orders in which a HashMap may yield its entries.
IterationOrders(S) ==
    {s \in [1..Cardinality(S) -> S] :
        \A i, j \in 1..Cardinality(S) : i /= j => s[i] /= s[j]}

\* AssertionFails for a loop without the assertion.
AssertionNeverFails(g) == FALSE

\* assert!(!ff.is_empty() || f.is_empty()), reached when dd is empty.
AssertionFails(g) ==
    \E f \in DOMAIN g : g[f].dd = <<>> /\ g[f].ff = <<>> /\ f /= ""

\* IsProvided that does not skip the features with external deps.
IsProvidedIgnoringDeps(g, f) == Len(g[f].ff) = 1

\* IsProvided that takes the first of several required features.
IsProvidedAtLeastOne(g, f) == g[f].dd = <<>> /\ Len(g[f].ff) >= 1

\* "if A depends on a single feature B, then B provides A".
IsProvided(g, f) == g[f].dd = <<>> /\ Len(g[f].ff) = 1

ProvidedBy(g, k) == {f \in DOMAIN g : IsProvided(g, f) /\ g[f].ff[1] = k}

\* The local map `provides`: a key for every feature that provides one,
\* its value filled in the iteration order of the graph.
RevProvides(g) ==
    [k \in {g[f].ff[1] : f \in {x \in DOMAIN g : IsProvided(g, x)}} |->
        SortedSeq(ProvidedBy(g, k))]

Provided(g) == SortedSeq({f \in DOMAIN g : IsProvided(g, f)})

\* RemoveProvided that forgets the last element of `provided`.
RemoveProvidedButLast(g, ps) ==
    [f \in DOMAIN g \ {ps[i] : i \in 1..(Len(ps) - 1)} |-> g[f]]

RemoveProvided(g, ps) == [f \in DOMAIN g \ Range(ps) |-> g[f]]

\* util::traverse_depth: the values of key, each followed by its own
\* traversal.
RECURSIVE traverse_depth(_, _)
traverse_depth(map, key) ==
    IF key \in DOMAIN map
    THEN map[key] \o
         Concat([i \in 1..Len(map[key]) |-> traverse_depth(map, map[key][i])])
    ELSE <<>>

\* FinalProvides without the recursion of traverse_depth.
FinalProvidesDirect(g, map) ==
    [k \in DOMAIN g |-> IF k \in DOMAIN map THEN SortUnstable(map[k]) ELSE <<>>]

\* FinalProvides with a key for every key of the local map as well.
FinalProvidesAllKeys(g, map) ==
    [k \in DOMAIN g \cup DOMAIN map |-> SortUnstable(traverse_depth(map, k))]

\* FinalProvides with nothing in the lists.
FinalProvidesEmpty(g, map) == [k \in DOMAIN g |-> <<>>]

\* FinalProvides without the sort.
FinalProvidesUnsorted(g, map) ==
    [k \in DOMAIN g |-> traverse_depth(map, k)]

FinalProvides(g, map) ==
    [k \in DOMAIN g |-> SortUnstable(traverse_depth(map, k))]

\* features_rev_deps is built and its groups are rewritten, in whatever
\* order the HashMap yields them.
Dedup ==
    /\ pc = "start"
    /\ \E order \in IterationOrders(FeaturesRevDeps(orig)) :
          features_with_deps' = DedupInOrder(orig, order)
    /\ pc' = "deduped"
    /\ UNCHANGED <<orig, rev_provides, provided, provides, peer, controlVars,
                 folderVars, changelogVars>>

\* The loop that fills `provides` and `provided`; it panics on a non-base
\* feature that has neither dependencies nor required features.
ExtractProvides ==
    /\ pc = "deduped"
    /\ IF AssertionFails(features_with_deps)
       THEN /\ pc' = "aborted"
            /\ UNCHANGED <<rev_provides, provided>>
       ELSE /\ pc' = "extracted"
            /\ rev_provides' = RevProvides(features_with_deps)
            /\ provided' = Provided(features_with_deps)
    /\ UNCHANGED <<orig, features_with_deps, provides, peer, controlVars,
                 folderVars, changelogVars>>

\* The provided features are removed and the provides lists are expanded
\* and sorted; the pair is returned.
ReturnReduced ==
    /\ pc = "extracted"
    /\ features_with_deps' = RemoveProvided(features_with_deps, provided)
    /\ provides' = FinalProvides(features_with_deps', rev_provides)
    /\ pc' = "done"
    /\ UNCHANGED <<orig, rev_provides, provided, peer, controlVars,
                 folderVars, changelogVars>>

----------------------------------------------------------------------------
(* collapse_features *)

\* CollapsedProvides without the test that skips the base feature.
CollapsedProvidesAll(g) ==
    "" :> SortedSeq(DOMAIN g)

CollapsedProvides(g) ==
    "" :> SortedSeq({f \in DOMAIN g : f /= ""})

\* CollapsedDeps that keeps the external deps of the base feature only.
CollapsedDepsBaseOnly(g) == g[""].dd

CollapsedDeps(g) ==
    LET fs == SortedSeq(DOMAIN g)
    IN Concat([i \in 1..Len(fs) |-> g[fs[i]].dd])

CollapsedFeaturesWithDeps(g) == "" :> Sig(<<>>, CollapsedDeps(g))

\* config.collapse_features is set: the whole graph becomes one package.
CollapseFeatures ==
    /\ pc = "start"
    /\ provides' = CollapsedProvides(orig)
    /\ features_with_deps' = CollapsedFeaturesWithDeps(orig)
    /\ pc' = "collapsed"
    /\ UNCHANGED <<orig, rev_provides, provided, peer, controlVars,
                 folderVars, changelogVars>>

----------------------------------------------------------------------------
(* prepare_debian_control: the packages of debian/control and the tests of *)
(* debian/tests/control.                                                   *)

\* config.package_test_is_broken: an Option<bool> for every feature.
\* (None and Some are defined with the changelog reconciler.)
Markings(g) == [DOMAIN g -> {<<>>, <<TRUE>>, <<FALSE>>}]

NoMarking(g) == [f \in DOMAIN g |-> <<>>]

\* crates::transitive_deps: f and the features reachable from f by
\* features_required edges.
transitive_deps(g, f) == {f} \cup Reach(g, f)

\* The results of util::get_transitive_val.
Consistent(v) == [ok |-> TRUE, v |-> v]

Conflict(k, vv) == [ok |-> FALSE, k |-> k, vv |-> vv]

\* util::get_transitive_val: the override of the key is folded with the
\* values of the features it requires; the first conflict met among those
\* is passed on, and two values that disagree are a conflict at the key.
RECURSIVE get_transitive_val(_, _, _)
get_transitive_val(g, m, key) ==
    LET parents == IF key \in DOMAIN g THEN g[key].ff ELSE <<>>
        here == IF key \in DOMAIN m THEN m[key] ELSE <<>>
        rs == [i \in 1..Len(parents) |-> get_transitive_val(g, m, parents[i])]
        bad == {i \in 1..Len(parents) : ~rs[i].ok}
        candidates == Range(here) \cup
                      UNION {Range(rs[i].v) : i \in 1..Len(parents) \ bad}
    IN IF bad /= {} THEN rs[CHOOSE i \in bad : \A j \in bad : i <= j]
       ELSE IF candidates = {} THEN Consistent(<<>>)
       ELSE IF Cardinality(candidates) = 1
            THEN Consistent(<<CHOOSE v \in candidates : TRUE>>)
       ELSE Conflict(key, candidates)

\* test_is_broken that takes a conflict for "not broken".
test_is_broken_lenient(g, m, f) ==
    LET r == get_transitive_val(g, m, f)
    IN IF ~r.ok THEN Consistent(FALSE)
       ELSE Consistent(IF r.v = <<>> THEN FALSE ELSE r.v[1])

\* test_is_broken that takes "no value" for "broken".
test_is_broken_default_true(g, m, f) ==
    LET r == get_transitive_val(g, m, f)
    IN IF ~r.ok THEN r
       ELSE Consistent(IF r.v = <<>> THEN TRUE ELSE r.v[1])

\* The closure test_is_broken: Err is a fatal error that carries the key
\* and the values, Ok(None) is false.
test_is_broken(g, m, f) ==
    LET r == get_transitive_val(g, m, f)
    IN IF ~r.ok THEN r
       ELSE Consistent(IF r.v = <<>> THEN FALSE ELSE r.v[1])

\* all_features_test_broken: some feature is itself marked broken.
all_features_test_broken(g, m) ==
    \E f \in DOMAIN g : m[f] = <<TRUE>>

\* Recommends without the look into the provides list.
RecommendsDefaultOnly(prov) ==
    SortedSeq({k \in DOMAIN prov : k /= "" /\ k = "default"})

\* The loop over `provides` that fills recommends and suggests.
Recommends(prov) ==
    SortedSeq({k \in DOMAIN prov :
                  k /= "" /\ (k = "default" \/ "default" \in Range(prov[k]))})

Suggests(prov) ==
    SortedSeq({k \in DOMAIN prov :
                  k /= "" /\ ~(k = "default" \/ "default" \in Range(prov[k]))})

\* f_recommends.into_iter().filter(|f| !f_provides.contains(f))
NotProvided(fs, f_provides) ==
    SelectSeq(fs, LAMBDA f : f \notin Range(f_provides))

\* Package::new; feature is None for the base package.
PackageNew(feature, f_deps, o_deps, f_provides, f_recommends, f_suggests) ==
    [name |-> IF feature = <<>> THEN "" ELSE feature[1],
     depends |-> Sig(f_deps, o_deps),
     provides |-> f_provides,
     recommends |-> IF feature = <<>>
                    THEN NotProvided(f_recommends, f_provides) ELSE <<>>,
     suggests |-> IF feature = <<>>
                  THEN NotProvided(f_suggests, f_provides) ELSE <<>>]

\* The package of a feature of the reduced graph.
PackageOf(reduced, prov, feature) ==
    PackageNew(IF feature = "" THEN <<>> ELSE <<feature>>,
               reduced[feature].ff, reduced[feature].dd, prov[feature],
               IF feature = "" THEN Recommends(prov) ELSE <<>>,
               IF feature = "" THEN Suggests(prov) ELSE <<>>)

\* TestArgs that looks at f alone, not at what f requires.
TestArgsShallow(g, f) ==
    (IF f = "default" THEN <<>> ELSE <<"--no-default-features">>)
    \o (IF f /= "" /\ f /= "default" THEN <<"--features", f>> ELSE <<>>)

\* args of the test of feature f.
TestArgs(g, f) ==
    (IF f = "default" \/ "default" \in transitive_deps(g, f)
     THEN <<>> ELSE <<"--no-default-features">>)
    \o (IF f /= "" /\ f /= "default" THEN <<"--features", f>> ELSE <<>>)

\* PkgTest::new
PkgTest(package, f, args, flaky) ==
    [package |-> package, feature |-> f, args |-> args, flaky |-> flaky]

\* The test of all features, owned by the source package.
AllFeaturesTest(g, m) ==
    PkgTest("@source", "@", <<"--all-features">>, all_features_test_broken(g, m))

\* crate_features without the feature of the package itself.
crate_features_provided(prov, feature) == prov[feature]

\* crate_features: what the package provides, then its own feature.
crate_features(prov, feature) == Append(prov[feature], feature)

\* The (package, feature) pairs in the order the two nested loops visit
\* them: the packages by name, the features of a package as crate_features
\* lists them.
TestOrder(reduced, prov) ==
    LET keys == SortedSeq(DOMAIN reduced)
    IN Concat([i \in 1..Len(keys) |->
                  LET cf == crate_features(prov, keys[i])
                  IN [j \in 1..Len(cf) |-> <<keys[i], cf[j]>>]])

\* provides.remove(feature).unwrap() finds an entry for every package, and
\* assert!(provides.is_empty()) finds none left.
LookupsSucceed(reduced, prov) == DOMAIN prov = DOMAIN reduced

\* The packages and tests are written until test_is_broken fails; a package
\* is written before its tests.  A failed lookup or assertion is a panic.
EmitControl ==
    /\ pc \in {"done", "collapsed"}
    /\ IF ~LookupsSucceed(features_with_deps, provides)
       THEN pc' = "panicked" /\ UNCHANGED <<packages, tests, error>>
       ELSE
       LET order == TestOrder(features_with_deps, provides)
           keys == SortedSeq(DOMAIN features_with_deps)
           failing == {n \in 1..Len(order) :
                          ~test_is_broken(orig, marked, order[n][2]).ok}
           stop == IF failing = {} THEN Len(order) + 1
                   ELSE CHOOSE n \in failing : \A k \in failing : n <= k
           last == IF failing = {} THEN Len(NameOrder)
                   ELSE Rank(order[stop][1])
       IN /\ tests' = <<AllFeaturesTest(orig, marked)>> \o
                      [n \in 1..(stop - 1) |->
                          PkgTest(order[n][1], order[n][2],
                                  TestArgs(orig, order[n][2]),
                                  test_is_broken(orig, marked, order[n][2]).v)]
          /\ packages' =
                 LET written == SelectSeq(keys, LAMBDA k : Rank(k) <= last)
                 IN [i \in 1..Len(written) |->
                        PackageOf(features_with_deps, provides, written[i])]
          /\ IF failing = {}
             THEN pc' = "emitted" /\ error' = <<>>
             ELSE /\ pc' = "failed"
                  /\ error' = <<test_is_broken(orig, marked, order[stop][2])>>
    /\ UNCHANGED <<orig, features_with_deps, rev_provides, provided, provides,
                   peer, marked, folderVars, changelogVars>>

----------------------------------------------------------------------------

(* debian/changelog.  An entry has a version "<upstream>-<revision>", a     *)
(* distribution, a maintainer "<name> <<email>>" and line-items; the file  *)
(* holds the entries newest first.                                         *)

DEFAULT_DIST == "UNRELEASED-FIXME-AUTOGENERATED-DEBCARGO"

Author(n, e) == [name |-> n, email |-> e]

Alice == Author("Alice", "alice@example.org")

Bob == Author("Bob", "bob@example.org")

\* control::get_deb_author: whoever runs the tool.
Authors == {Alice, Bob}

\* config.uploaders()
Uploaders == {Alice}

\* deb_info.debian_version(): the upstream versions a run may package.
UpstreamVersions == {1, 2}

\* A line-item: what kind of line it is, and the version and the text it
\* carries.
Item(t, v, s) == [t |-> t, v |-> v, s |-> s]

\* "  * Package <crate> <version> from <crate_src> using debcargo <version>"
AutogeneratedItem(v) == Item("Package", v, "crates.io")

\* autogenerated_re, built for the crate source of this run.
AutogeneratedRe(item) == item.t = "Package" /\ item.s = "crates.io"

\* changelog::COMMENT_TEAM_UPLOAD, "  * Team upload."
COMMENT_TEAM_UPLOAD == Item("Team upload", 0, "")

BlankItem == Item("", 0, "")

\* "  [ <name> ]"
Heading(name) == Item("heading", 0, name)

\* Line-items people write: one of them quotes the distribution of an
\* autogenerated entry.
HandWrittenItems ==
    {Item("text", 0, "Fix the build"), Item("text", 0, DEFAULT_DIST)}

Entry(up, rev, dist, maintainer, items) ==
    [up |-> up, rev |-> rev, dist |-> dist, maintainer |-> maintainer,
     items |-> items]

\* x.contains(changelog::DEFAULT_DIST) on the text of an entry: the text
\* of an entry holds its distribution and the text of its line-items.
EntryContainsDefaultDist(e) ==
    \/ e.dist = DEFAULT_DIST
    \/ \E i \in 1..Len(e.items) : e.items[i].s = DEFAULT_DIST

\* ChangelogEntry::maintainer_name
maintainer_name(e) == e.maintainer.name

\* ChangelogEntry::deb_version_suffix_bump: the revision after this one.
deb_version_suffix_bump(e) == e.rev + 1

\* An Option is a sequence of length at most one.
None == <<>>

Some(x) == <<x>>

\* ver_bump without the comparison of the upstream versions.
ver_bump_any_upstream(e, debian_version) ==
    IF e = None THEN None ELSE Some(deb_version_suffix_bump(e[1]))

\* The closure ver_bump: the bumped revision of an entry of the same
\* upstream version, None otherwise.
ver_bump(e, debian_version) ==
    IF e = None THEN None
    ELSE IF e[1].up = debian_version
         THEN Some(deb_version_suffix_bump(e[1]))
         ELSE None

\* The text of an entry that ChangelogEntry::from_str cannot parse: a header
\* without a version, or a trailer without a maintainer.
Malformed(x) == x.rev = 0 \/ x.maintainer.name = ""

\* ChangelogEntry::from_str
from_str(x) == [ok |-> ~Malformed(x), e |-> x]

\* ChangelogIterator::next after i entries were taken.
NextEntry(data, i) == IF Len(data) > i THEN Some(data[i + 1]) ELSE None

\* e.items.iter().position(|x| autogenerated_re.is_match(x))
AutogeneratedPosition(items) ==
    LET hits == {i \in 1..Len(items) : AutogeneratedRe(items[i])}
    IN IF hits = {} THEN None
       ELSE Some(CHOOSE i \in hits : \A j \in hits : i <= j)

\* ItemsSameAuthor that never looks for the line-item to replace.
ItemsSameAuthorAppend(items, autogenerated_item) ==
    Append(items, autogenerated_item)

\* The line-items kept from an unreleased entry of the same author.
ItemsSameAuthor(items, autogenerated_item) ==
    LET pos == AutogeneratedPosition(items)
    IN IF pos /= None
       THEN [items EXCEPT ![pos[1]] = autogenerated_item]
       ELSE Append(items, autogenerated_item)

\* ItemsOtherAuthor with the new lines after the existing ones.
ItemsOtherAuthorAfter(e, autogenerated_item) ==
    e.items \o <<autogenerated_item, BlankItem, Heading(maintainer_name(e))>>

\* The line-items kept from an unreleased entry of somebody else.
ItemsOtherAuthor(e, autogenerated_item) ==
    <<autogenerated_item, BlankItem, Heading(maintainer_name(e))>> \o e.items

\* The text of an entry, as the pieces the file holds: the header line, the
\* line-items and the trailer line.  The texts of the two upstream versions
\* differ in length: the line-item of version 1 takes two pieces.
ItemText(item) ==
    IF item.t = "Package" /\ item.v = 1
    THEN <<item, Item("continued", 0, "")>>
    ELSE <<item>>

\* impl Display for ChangelogEntry
Render(e) ==
    <<Item("header", 10 * e.up + e.rev, e.dist)>>
    \o Concat([i \in 1..Len(e.items) |-> ItemText(e.items[i])])
    \o <<Item("trailer", 0, e.maintainer.name)>>

RenderAll(log) == Concat([i \in 1..Len(log) |-> Render(log[i])])

\* write! at the cursor: the data replaces what the file holds from there
\* and extends the file if it reaches beyond its end.
WriteAt(f, cursor, data) ==
    [i \in 1..(IF Len(f) > cursor + Len(data) THEN Len(f)
               ELSE cursor + Len(data)) |->
        IF i > cursor /\ i <= cursor + Len(data) THEN data[i - cursor]
        ELSE f[i]]

\* set_len that leaves the file as long as it is.
set_len_noop(f, n) == f

\* File::set_len, for a length within the file.
set_len(f, n) == SubSeq(f, 1, n)

\* WithTeamUpload without the look for a line-item that says it already.
WithTeamUploadAlways(items, author) ==
    IF author \notin Uploaders THEN <<COMMENT_TEAM_UPLOAD>> \o items
    ELSE items

\* WithTeamUpload that puts the marker last.
WithTeamUploadLast(items, author) ==
    IF author \notin Uploaders /\ COMMENT_TEAM_UPLOAD \notin {items[i] : i \in 1..Len(items)}
    THEN Append(items, COMMENT_TEAM_UPLOAD)
    ELSE items

\* The line-items of all the entries of a changelog.
RECURSIVE Lines(_)
Lines(log) ==
    IF log = <<>> THEN 0 ELSE Len(Head(log).items) + Lines(Tail(log))

\* The first entry is written over if its text has DEFAULT_DIST.
WritesOver(data) ==
    data /= <<>> /\ EntryContainsDefaultDist(data[1])

\* Parsed that stops after the first entry.
ParsedFirstOnly(data) == NextEntry(data, 0)

\* The entries that from_str is applied to, in this order: the first entry
\* and the one after it if the first is written over, the first entry (in
\* ver_bump) otherwise.
Parsed(data) ==
    IF WritesOver(data)
    THEN NextEntry(data, 0) \o NextEntry(data, 1)
    ELSE NextEntry(data, 0)

\* The error that `?` returns: the first entry that from_str fails on.
ParseFailure(data) ==
    LET parsed == Parsed(data)
        bad == {i \in 1..Len(parsed) : ~from_str(parsed[i]).ok}
    IN IF bad = {} THEN None
       ELSE Some(parsed[CHOOSE i \in bad : \A j \in bad : i <= j])

\* changelog_first_last parses every entry; it fails on the first entry
\* that does not parse and on a changelog without entries.
changelog_first_last(data) ==
    [ok |-> data /= <<>> /\ \A i \in 1..Len(data) : from_str(data[i]).ok]

\* The year range of debian/copyright: the error of changelog_first_last
\* is fatal with changelog_ready and replaced by this year without.
YearRange(data, changelog_ready) ==
    [ok |-> changelog_ready => changelog_first_last(data).ok]

\* Reconciled that bumps the revision of the entry it writes over.
ReconciledFromTop(data, author, debian_version) ==
    IF WritesOver(data)
    THEN [old |-> Tail(data),
          items |-> IF author = data[1].maintainer
                    THEN ItemsSameAuthor(data[1].items,
                                         AutogeneratedItem(debian_version))
                    ELSE ItemsOtherAuthor(data[1],
                                          AutogeneratedItem(debian_version)),
          suffix |-> ver_bump(NextEntry(data, 0), debian_version)]
    ELSE [old |-> data,
          items |-> <<AutogeneratedItem(debian_version)>>,
          suffix |-> ver_bump(NextEntry(data, 0), debian_version)]

\* (changelog_old, changelog_items, deb_version_suffix)
Reconciled(data, author, debian_version) ==
    IF WritesOver(data)
    THEN [old |-> Tail(data),
          items |-> IF author = data[1].maintainer
                    THEN ItemsSameAuthor(data[1].items,
                                         AutogeneratedItem(debian_version))
                    ELSE ItemsOtherAuthor(data[1],
                                          AutogeneratedItem(debian_version)),
          suffix |-> ver_bump(NextEntry(data, 1), debian_version)]
    ELSE [old |-> data,
          items |-> <<AutogeneratedItem(debian_version)>>,
          suffix |-> ver_bump(NextEntry(data, 0), debian_version)]

\* "Team upload" goes first when the author is no uploader and no
\* line-item says it yet.
WithTeamUpload(items, author) ==
    IF author \notin Uploaders /\ COMMENT_TEAM_UPLOAD \notin Range(items)
    THEN <<COMMENT_TEAM_UPLOAD>> \o items
    ELSE items

\* changelog_new_entry
NewEntry(data, author, debian_version) ==
    LET r == Reconciled(data, author, debian_version)
    IN Entry(debian_version,
             IF r.suffix = None THEN 1 ELSE r.suffix[1],
             DEFAULT_DIST, author,
             WithTeamUpload(r.items, author))

\* The branch a run takes.
Branch(data, author) ==
    IF ~WritesOver(data) THEN "prepend"
    ELSE IF author = data[1].maintainer THEN "same author"
    ELSE "other author"

\* changelog_old as text: the file from the end of its first entry on if
\* that entry is written over, the whole file otherwise.
ChangelogOld(data, text) ==
    IF WritesOver(data)
    THEN SubSeq(text, Len(Render(data[1])) + 1, Len(text))
    ELSE text

\* The file after the seek to its start, the write of the new entry and
\* of changelog_old, and the set_len to the cursor.
Rewritten(text, content) ==
    set_len(WriteAt(text, 0, content), Len(content))

\* A run of prepare_debian_folder without changelog_ready: the changelog is
\* read, reconciled and written back.  An entry that does not parse ends
\* the run before the seek to the start of the file.
Reconcile(author, debian_version) ==
    LET r == Reconciled(changelog, author, debian_version)
        e == NewEntry(changelog, author, debian_version)
        content == Render(e) \o ChangelogOld(changelog, file)
        failure == ParseFailure(changelog)
    IN /\ pc = "idle"
       /\ YearRange(changelog, FALSE).ok
       /\ IF failure /= None
          THEN /\ pc' = "failed"
               /\ error' = <<[parse |-> failure[1]]>>
               /\ UNCHANGED <<changelog, file, truncated, lastrun>>
          ELSE /\ Lines(<<e>> \o r.old) <= MaxLines
               /\ changelog' = <<e>> \o r.old
               /\ file' = Rewritten(file, content)
               /\ truncated' = Len(WriteAt(file, 0, content)) - Len(content)
               /\ lastrun' = Branch(changelog, author)
               /\ UNCHANGED <<pc, error>>
       /\ UNCHANGED <<edits, orig, features_with_deps, rev_provides, provided,
                      provides, peer, marked, packages, tests, folderVars>>

Run == \E author \in Authors, v \in UpstreamVersions : Reconcile(author, v)

\* The maintainer releases the newest entry: its distribution becomes
\* "unstable".
Release ==
    /\ changelog /= <<>>
    /\ changelog[1].dist = DEFAULT_DIST
    /\ changelog' = [changelog EXCEPT ![1].dist = "unstable"]
    /\ file' = RenderAll(changelog')
    /\ truncated' = 0
    /\ lastrun' = "release"
    /\ UNCHANGED <<edits, resolverVars>>

\* The maintainer adds a line-item to the newest, unreleased entry.
AddItem ==
    /\ changelog /= <<>>
    /\ changelog[1].dist = DEFAULT_DIST
    /\ edits < MaxEdits
    /\ Lines(changelog) < MaxLines
    /\ \E item \in HandWrittenItems :
          changelog' = [changelog EXCEPT ![1].items = Append(@, item)]
    /\ file' = RenderAll(changelog')
    /\ truncated' = 0
    /\ lastrun' = "edit"
    /\ edits' = edits + 1
    /\ UNCHANGED resolverVars

\* The maintainer deletes a line-item of the newest, unreleased entry.
DeleteItem ==
    /\ changelog /= <<>>
    /\ changelog[1].dist = DEFAULT_DIST
    /\ edits < MaxEdits
    /\ \E i \in 1..Len(changelog[1].items) :
          changelog' = [changelog EXCEPT ![1].items =
                           SubSeq(@, 1, i - 1) \o SubSeq(@, i + 1, Len(@))]
    /\ file' = RenderAll(changelog')
    /\ truncated' = 0
    /\ lastrun' = "edit"
    /\ edits' = edits + 1
    /\ UNCHANGED resolverVars

----------------------------------------------------------------------------
(* prepare_debian_folder: the files.  The run fills a temporary directory, *)
(* copies hint files and the changelog back to the overlay directory and   *)
(* renames the temporary directory to <pkg_srcdir>/debian.                 *)

\* The files the run writes with file(name), in the order it writes them.
GeneratedFiles == <<"copyright", "control", "rules">>

\* The files an overlay directory may hold.
OverlayFiles ==
    {"changelog", "control", "copyright", "copyright.debcargo.hint"}

\* name + util::HINT_SUFFIX
HintName(name) ==
    CASE name = "copyright" -> "copyright.debcargo.hint"
      [] name = "control" -> "control.debcargo.hint"
      [] name = "rules" -> "rules.debcargo.hint"

\* config.overlay_dir(config_path): none, ".", or a directory; and the
\* flags changelog_ready and overlay_write_back.
Options ==
    [overlay : {"none", ".", "dir"},
     changelog_ready : BOOLEAN,
     overlay_write_back : BOOLEAN]

NoOptions == [overlay |-> "none", changelog_ready |-> TRUE,
              overlay_write_back |-> FALSE]

\* A file is as it was before the run ("old"), made by the run ("new"), or
\* was there before the run and has been written over by it ("overwritten").
AllOld(names) == [n \in names |-> "old"]

\* FileCreated with a plain create instead of create_new.
FileCreatedOverwrite(dir, name) == (name :> "new") @@ dir

\* The closure `file`: the file is created in the temporary directory, or,
\* if the overlay brought one of that name, its hint file is, and the name
\* of the hint file is pushed to new_hints.
FileCreated(dir, name) ==
    IF name \in DOMAIN dir
    THEN (HintName(name) :> "new") @@ dir
    ELSE (name :> "new") @@ dir

HintsPushed(dir, hints, name) ==
    IF name \in DOMAIN dir THEN Append(hints, HintName(name)) ELSE hints

RECURSIVE FilesCreated(_, _)
FilesCreated(dir, names) ==
    IF names = <<>> THEN dir
    ELSE FilesCreated(FileCreated(dir, Head(names)), Tail(names))

RECURSIVE AllHintsPushed(_, _, _)
AllHintsPushed(dir, hints, names) ==
    IF names = <<>> THEN hints
    ELSE AllHintsPushed(FileCreated(dir, Head(names)),
                        HintsPushed(dir, hints, Head(names)), Tail(names))

\* The fatal error of a step: the run returns and the temporary directory
\* is removed with its handle.
Bail ==
    /\ pc' = "failed"
    /\ tempdir' = <<>>

\* The temporary directory is made and the overlay is copied into it; an
\* overlay of "." is refused.
CopyOverlay ==
    /\ pc = "begin"
    /\ IF options.overlay = "."
       THEN Bail
       ELSE /\ pc' = "overlaid"
            /\ tempdir' = overlay_dir
    /\ UNCHANGED <<options, overlay_dir, new_hints, debian>>
    /\ UNCHANGED <<orig, features_with_deps, rev_provides, provided, provides,
                   peer, controlVars, changelogVars>>

\* The generated files are written; the step fails after any number of
\* them (an I/O error, an error of prepare_debian_control).
GenerateFiles ==
    /\ pc = "overlaid"
    /\ \E n \in 0..Len(GeneratedFiles) :
          LET names == SubSeq(GeneratedFiles, 1, n)
          IN /\ new_hints' = AllHintsPushed(tempdir, new_hints, names)
             /\ IF n = Len(GeneratedFiles)
                THEN /\ pc' = "generated"
                     /\ tempdir' = FilesCreated(tempdir, names)
                ELSE Bail
    /\ UNCHANGED <<options, overlay_dir, debian>>
    /\ UNCHANGED <<orig, features_with_deps, rev_provides, provided, provides,
                   peer, controlVars, changelogVars>>

\* debian/changelog is written in the temporary directory unless
\* changelog_ready; an entry that does not parse is a fatal error.
WriteChangelog ==
    /\ pc = "generated"
    /\ \/ /\ pc' = "reconciled"
          /\ tempdir' = IF options.changelog_ready THEN tempdir
                        ELSE ("changelog" :> "new") @@ tempdir
       \/ /\ ~options.changelog_ready
          /\ "changelog" \in DOMAIN tempdir
          /\ Bail
    /\ UNCHANGED <<options, overlay_dir, new_hints, debian>>
    /\ UNCHANGED <<orig, features_with_deps, rev_provides, provided, provides,
                   peer, controlVars, changelogVars>>

\* The hints to write back: new_hints, and "changelog" unless
\* changelog_ready.
HintsToWriteBack ==
    IF options.changelog_ready THEN new_hints
    ELSE Append(new_hints, "changelog")

\* overlay_write_back: the hints are copied to the overlay directory one by
\* one; a copy that fails ends the run ("could not write back").
WriteBack ==
    /\ pc = "reconciled"
    /\ IF options.overlay_write_back /\ options.overlay = "dir"
       THEN \E n \in 0..Len(HintsToWriteBack) :
               /\ overlay_dir' =
                      [h \in {HintsToWriteBack[i] : i \in 1..n} |->
                          IF h \in DOMAIN overlay_dir THEN "overwritten"
                          ELSE "new"]
                      @@ overlay_dir
               /\ IF n = Len(HintsToWriteBack)
                  THEN pc' = "written back" /\ UNCHANGED tempdir
                  ELSE Bail
       ELSE /\ pc' = "written back"
            /\ UNCHANGED <<overlay_dir, tempdir>>
    /\ UNCHANGED <<options, new_hints, debian>>
    /\ UNCHANGED <<orig, features_with_deps, rev_provides, provided, provides,
                   peer, controlVars, changelogVars>>

\* fs::rename of the temporary directory to <pkg_srcdir>/debian, which
\* fails if the two are on different file systems or the target is a
\* directory that is not empty.
Rename ==
    /\ pc = "written back"
    /\ \/ /\ pc' = "renamed"
          /\ debian' = "new"
          /\ tempdir' = <<>>
       \/ /\ Bail
          /\ UNCHANGED debian
    /\ UNCHANGED <<options, overlay_dir, new_hints>>
    /\ UNCHANGED <<orig, features_with_deps, rev_provides, provided, provides,
                   peer, controlVars, changelogVars>>

InitFolder ==
    /\ pc = "begin"
    /\ orig = <<>>
    /\ features_with_deps = <<>>
    /\ rev_provides = <<>>
    /\ provided = <<>>
    /\ provides = <<>>
    /\ peer = <<>>
    /\ marked = <<>>
    /\ packages = <<>>
    /\ tests = <<>>
    /\ error = <<>>
    /\ options \in Options
    /\ overlay_dir \in {AllOld(names) :
                           names \in IF options.overlay = "dir"
                                     THEN SUBSET OverlayFiles ELSE {{}}}
    /\ tempdir = <<>>
    /\ new_hints = <<>>
    /\ debian = "old"
    /\ changelog = <<>>
    /\ file = <<>>
    /\ truncated = 0
    /\ edits = 0
    /\ lastrun = "none"

NextFolder ==
    \/ CopyOverlay
    \/ GenerateFiles
    \/ WriteChangelog
    \/ WriteBack
    \/ Rename

SpecFolder == InitFolder /\ [][NextFolder]_vars

----------------------------------------------------------------------------

NoChangelog == <<>>

NoRun == "none"

InitResolver ==
    /\ pc = "start"
    /\ orig \in FeatureGraphs
    /\ features_with_deps = orig
    /\ rev_provides = <<>>
    /\ provided = <<>>
    /\ provides = <<>>
    /\ peer \in PeerGraphs
    /\ marked = NoMarking(orig)
    /\ packages = <<>>
    /\ tests = <<>>
    /\ error = <<>>
    /\ options = NoOptions
    /\ overlay_dir = <<>>
    /\ tempdir = <<>>
    /\ new_hints = <<>>
    /\ debian = "old"
    /\ changelog = NoChangelog
    /\ file = <<>>
    /\ truncated = 0
    /\ edits = 0
    /\ lastrun = NoRun

NextResolver ==
    \/ Dedup
    \/ ExtractProvides
    \/ ReturnReduced
    \/ CollapseFeatures
    \/ EmitControl

SpecResolver == InitResolver /\ [][NextResolver]_vars

\* The crates whose configuration marks tests as broken or as not broken.
\* External dependencies play no part in the flag of a test: the features
\* of these crates have none.
BrokenGraphs ==
    {g \in FeatureGraphs : \A f \in DOMAIN g : g[f].dd = <<>>}

InitBroken ==
    /\ pc = "start"
    /\ orig \in BrokenGraphs
    /\ features_with_deps = orig
    /\ rev_provides = <<>>
    /\ provided = <<>>
    /\ provides = <<>>
    /\ peer = CHOOSE p \in PeerGraphs : "bx" \notin DOMAIN p
    /\ marked \in Markings(orig)
    /\ packages = <<>>
    /\ tests = <<>>
    /\ error = <<>>
    /\ options = NoOptions
    /\ overlay_dir = <<>>
    /\ tempdir = <<>>
    /\ new_hints = <<>>
    /\ debian = "old"
    /\ changelog = NoChangelog
    /\ file = <<>>
    /\ truncated = 0
    /\ edits = 0
    /\ lastrun = NoRun

SpecBroken == InitBroken /\ [][NextResolver]_vars

InitChangelog ==
    /\ pc = "idle"
    /\ orig = <<>>
    /\ features_with_deps = <<>>
    /\ rev_provides = <<>>
    /\ provided = <<>>
    /\ provides = <<>>
    /\ peer = <<>>
    /\ marked = <<>>
    /\ packages = <<>>
    /\ tests = <<>>
    /\ error = <<>>
    /\ options = NoOptions
    /\ overlay_dir = <<>>
    /\ tempdir = <<>>
    /\ new_hints = <<>>
    /\ debian = "old"
    /\ changelog = NoChangelog
    /\ file = <<>>
    /\ truncated = 0
    /\ edits = 0
    /\ lastrun = NoRun

NextChangelog ==
    \/ Run
    \/ Release
    \/ AddItem
    \/ DeleteItem

SpecChangelog == InitChangelog /\ [][NextChangelog]_vars

\* The entries of a history file that the tool did not write: released and
\* unreleased ones, one with a header that does not parse and one with a
\* trailer that does not parse.
Chunks ==
    {Entry(1, 1, "unstable", Alice, <<AutogeneratedItem(1)>>),
     Entry(1, 1, DEFAULT_DIST, Alice, <<AutogeneratedItem(1)>>),
     Entry(1, 0, "unstable", Alice, <<Item("text", 0, "Fix the build")>>),
     Entry(1, 1, DEFAULT_DIST, Author("", ""), <<AutogeneratedItem(1)>>)}

Histories == UNION {[1..n -> Chunks] : n \in 0..MaxChunks}

\* A run on a history file of any content.
InitParse ==
    /\ pc = "idle"
    /\ orig = <<>>
    /\ features_with_deps = <<>>
    /\ rev_provides = <<>>
    /\ provided = <<>>
    /\ provides = <<>>
    /\ peer = <<>>
    /\ marked = <<>>
    /\ packages = <<>>
    /\ tests = <<>>
    /\ error = <<>>
    /\ options = NoOptions
    /\ overlay_dir = <<>>
    /\ tempdir = <<>>
    /\ new_hints = <<>>
    /\ debian = "old"
    /\ changelog \in Histories
    /\ file = RenderAll(changelog)
    /\ truncated = 0
    /\ edits = 0
    /\ lastrun = NoRun

NextParse == Run

SpecParse == InitParse /\ [][NextParse]_vars

----------------------------------------------------------------------------
(* Properties of the resolver *)

Keys == DOMAIN features_with_deps

\* In how many places of the output f appears: as a surviving key, and at
\* the positions of the provides lists.
Places(f) ==
    (IF f \in Keys THEN 1 ELSE 0)
    + Cardinality({ki \in UNION {{<<k, i>> : i \in 1..Len(provides[k])} :
                                  k \in DOMAIN provides} :
                      provides[ki[1]][ki[2]] = f})

\* C1: the output of reduce_provides partitions the original key set: every
\* original feature is a surviving key or a member of exactly one provides
\* list, never both and never twice, and no other name appears.
C1_Partition ==
    pc = "done" =>
        /\ \A f \in DOMAIN orig : Places(f) = 1
        /\ Keys \subseteq DOMAIN orig
        /\ \A k \in DOMAIN provides : Range(provides[k]) \subseteq DOMAIN orig

\* A run in which a surviving feature provides a feature that itself
\* provides another one.
C1_Witness ==
    /\ pc = "done"
    /\ \E k \in Keys : \E f \in DOMAIN rev_provides :
          /\ f \notin Keys
          /\ f \in Range(provides[k])
          /\ Range(rev_provides[f]) /= {}
          /\ Range(rev_provides[f]) \subseteq Range(provides[k])

ExampleGraph ==
    ("" :> Sig(<<>>, <<Dep("libc", "")>>))
    @@ ("default" :> Sig(<<"std">>, <<>>))
    @@ ("std" :> Sig(<<>>, <<Dep("libc", "")>>))

\* C2 as stated: the example graph reduces to the package keys {"", "std"}
\* with "default" provided by "std".
C2_AsStated ==
    (pc = "done" /\ orig = ExampleGraph) =>
        /\ Keys = {"", "std"}
        /\ provides["std"] = <<"default">>

\* C2 as amended: "std" has the signature of the base feature, so it is
\* rewritten to depend on "" and the example graph reduces to the single
\* package key "" that provides "default" and "std".
C2_Example ==
    (pc = "done" /\ orig = ExampleGraph) =>
        /\ Keys = {""}
        /\ provides = ("" :> <<"default", "std">>)

C2_Witness == pc = "done" /\ orig = ExampleGraph

\* C3: the base feature "" is a key of the reduced graph returned by
\* reduce_provides and by collapse_features.
C3_BaseSurvives ==
    pc \in {"done", "collapsed"} => "" \in Keys

\* reduce_provides has returned for a graph in which another feature has
\* the signature of the base feature.
C3_Witness ==
    /\ pc = "done"
    /\ "" \in Keys
    /\ \E f \in DOMAIN orig \ {""} : orig[f] = orig[""]

\* The features that share the signature of f in the original graph, and
\* the smallest name among them.
SameSignature(f) == {g \in DOMAIN orig : orig[g] = orig[f]}

Representative(f) ==
    CHOOSE g \in SameSignature(f) : \A h \in SameSignature(f) : Rank(g) <= Rank(h)

\* The surviving package that is or provides f.
PackagesOf(f) == {k \in Keys : f = k \/ f \in Range(provides[k])}

\* C4: after the dedup step the smallest name of every signature group
\* keeps its signature and every other member f is ([f0], []); in the final
\* provides map f is listed under the package that is or provides f0.
C4_Dedup ==
    /\ pc \in {"deduped", "extracted"} =>
          \A f \in DOMAIN orig :
              features_with_deps[f] =
                  IF f = Representative(f) THEN orig[f]
                  ELSE Sig(<<Representative(f)>>, <<>>)
    /\ pc = "done" =>
          \A f \in DOMAIN orig :
              f /= Representative(f) =>
                  /\ f \notin Keys
                  /\ PackagesOf(f) /= {}
                  /\ PackagesOf(f) = PackagesOf(Representative(f))

\* Two features with the signature (["x"], []) for some x, the smaller of
\* them provided by x and the other listed with it.
C4_Witness ==
    /\ pc = "done"
    /\ \E f \in DOMAIN orig :
          /\ f /= Representative(f)
          /\ orig[f].dd = <<>>
          /\ Len(orig[f].ff) = 1
          /\ orig[f].ff[1] \in Keys
          /\ {f, Representative(f)} \subseteq Range(provides[orig[f].ff[1]])

AllExternalDeps(g) == UNION {Range(g[f].dd) : f \in DOMAIN g}

\* C5: the collapse fallback returns exactly one package keyed "" that
\* requires no feature, whose external deps are, as a set, those of all
\* original features, and that provides exactly the non-base features.
C5_Collapse ==
    pc = "collapsed" =>
        /\ Keys = {""}
        /\ features_with_deps[""].ff = <<>>
        /\ Range(features_with_deps[""].dd) = AllExternalDeps(orig)
        /\ DOMAIN provides = {""}
        /\ Range(provides[""]) = DOMAIN orig \ {""}
        /\ Len(provides[""]) = Cardinality(DOMAIN orig \ {""})

\* A collapse of two non-base features whose external deps differ from
\* those of the base feature.
C5_Witness ==
    /\ pc = "collapsed"
    /\ Len(provides[""]) = 2
    /\ \E f \in DOMAIN orig : Range(orig[f].dd) \ Range(orig[""].dd) /= {}

----------------------------------------------------------------------------
(* The packages of the two source packages A (this crate) and B (peer).    *)

\* Package::new: a package depends on the packages of its external deps;
\* a dependency on a feature of a crate is satisfied by the package of
\* that crate that is or provides the feature.
DependsOnCrate(sig, crate) ==
    \E i \in 1..Len(sig.dd) : sig.dd[i].crate = crate

\* The collapsed packages of A and B depend on each other.
CollapsedPackageCycle ==
    /\ DependsOnCrate(features_with_deps[""], "B")
    /\ DependsOnCrate(CollapsedFeaturesWithDeps(peer)[""], "A")

\* The features of both crates as one graph: a feature points to the
\* features it requires and to the features its external deps name.
CrateGraph(crate) == IF crate = "A" THEN orig ELSE peer

FeatureEdges(n) ==
    LET g == CrateGraph(n[1])
    IN {<<n[1], g[n[2]].ff[i]>> : i \in 1..Len(g[n[2]].ff)}
       \cup {<<d.crate, d.feature>> :
                d \in {x \in Range(g[n[2]].dd) : x.crate \in {"A", "B"}}}

FeatureNodes ==
    {<<"A", f>> : f \in DOMAIN orig} \cup {<<"B", f>> : f \in DOMAIN peer}

RECURSIVE FeatureReachFrom(_, _)
FeatureReachFrom(frontier, seen) ==
    LET next == (UNION {FeatureEdges(n) : n \in frontier} \cap FeatureNodes) \ seen
    IN IF next = {} THEN seen ELSE FeatureReachFrom(next, seen \cup next)

FeatureLevelAcyclic ==
    \A n \in FeatureNodes : n \notin FeatureReachFrom({n}, {})

SomeFeatureDependsOn(g, crate) ==
    \E f \in DOMAIN g : DependsOnCrate(g[f], crate)

\* C6 as stated: with every source package collapsed into one package, no
\* cycle of package dependencies exists.
C6_AsStated ==
    (pc = "collapsed" /\ FeatureLevelAcyclic) => ~CollapsedPackageCycle

\* C6 as amended: the collapsed package requires no feature, so it depends
\* on no package of its own source package, but the collapsed packages of
\* two source packages depend on each other exactly when some feature of
\* each depends on a feature of the other, with no cycle among features.
C6_CollapseCycles ==
    pc = "collapsed" =>
        /\ FeatureLevelAcyclic
        /\ features_with_deps[""].ff = <<>>
        /\ CollapsedPackageCycle <=>
               (SomeFeatureDependsOn(orig, "B") /\ SomeFeatureDependsOn(peer, "A"))

\* Only a non-base feature of A depends on B, only a non-base feature of B
\* depends on A, and the collapsed packages depend on each other.
C6_Witness ==
    /\ pc = "collapsed"
    /\ FeatureLevelAcyclic
    /\ ~DependsOnCrate(orig[""], "B")
    /\ ~DependsOnCrate(peer[""], "A")
    /\ CollapsedPackageCycle

----------------------------------------------------------------------------
(* Properties of the packages and tests *)

BasePackage == packages[1]

IsRecommended(f) == f = "default" \/ "default" \in Range(provides[f])

\* C14: every surviving non-base feature is in exactly one of the lists
\* recommends and suggests of the base package, in recommends if and only
\* if it is "default" or provides "default"; the base feature is in
\* neither, and the packages of the features carry two empty lists.
C14_Classification ==
    pc = "emitted" =>
        /\ BasePackage.name = ""
        /\ {packages[i].name : i \in 1..Len(packages)} = Keys
        /\ \A f \in Keys \ {""} :
              /\ f \in Range(BasePackage.recommends) <=> IsRecommended(f)
              /\ f \in Range(BasePackage.suggests) <=> ~IsRecommended(f)
        /\ Len(BasePackage.recommends) + Len(BasePackage.suggests)
               = Cardinality(Keys \ {""})
        /\ Range(BasePackage.recommends) \cup Range(BasePackage.suggests)
               \subseteq Keys \ {""}
        /\ \A i \in 2..Len(packages) :
              /\ packages[i].name /= ""
              /\ packages[i].recommends = <<>>
              /\ packages[i].suggests = <<>>

\* The base package recommends a feature that is not "default" but provides
\* it, and a package of a feature was written.
C14_Witness ==
    /\ pc = "emitted"
    /\ Len(packages) >= 2
    /\ \E f \in Range(BasePackage.recommends) :
          f /= "default" /\ "default" \in Range(provides[f])

HasFeaturesArg(args, f) ==
    \E j \in 1..(Len(args) - 1) : args[j] = "--features" /\ args[j + 1] = f

\* C15: the test of a feature f has "--no-default-features" exactly when f
\* is not "default" and "default" is not reachable from f in the original
\* graph, and "--features f" exactly when f is neither "" nor "default".
C15_TestArgs ==
    \A i \in 2..Len(tests) :
        LET f == tests[i].feature
        IN /\ "--no-default-features" \in Range(tests[i].args)
                 <=> (f /= "default" /\ "default" \notin Reach(orig, f))
           /\ HasFeaturesArg(tests[i].args, f) <=> f \notin {"", "default"}
           /\ "--features" \in Range(tests[i].args) <=> f \notin {"", "default"}

\* A test of a feature other than "default" that requires "default", which
\* the reduction has removed from the graph.
C15_Witness ==
    /\ pc = "emitted"
    /\ \E i \in 2..Len(tests) :
          /\ tests[i].feature /= "default"
          /\ "default" \in Reach(orig, tests[i].feature)
          /\ "default" \notin Keys
          /\ tests[i].args = <<"--features", tests[i].feature>>

\* C16: after the test of all features there is exactly one test for every
\* feature of the original graph, owned by the surviving package that is
\* or provides the feature; the tests of a package are together, the
\* packages in the order of their names, and within a package the provided
\* features come in the order of their names before the feature of the
\* package itself.
C16_TestMatrix ==
    pc = "emitted" =>
        /\ tests[1].feature = "@"
        /\ Len(tests) = 1 + Cardinality(DOMAIN orig)
        /\ \A f \in DOMAIN orig : \E i \in 2..Len(tests) : tests[i].feature = f
        /\ \A i \in 2..Len(tests) :
              /\ tests[i].package \in Keys
              /\ \/ tests[i].feature = tests[i].package
                 \/ tests[i].feature \in Range(provides[tests[i].package])
        /\ \A i, j \in 2..Len(tests) :
              i < j =>
                  /\ Rank(tests[i].package) <= Rank(tests[j].package)
                  /\ tests[i].package = tests[j].package =>
                        /\ tests[i].feature /= tests[i].package
                        /\ \/ tests[j].feature = tests[j].package
                           \/ Rank(tests[i].feature) < Rank(tests[j].feature)

\* reduce_provides has left two packages, and one of them owns the tests of
\* the features it provides besides its own.
C16_Witness ==
    /\ pc = "emitted"
    /\ provided /= <<>>
    /\ Cardinality(Keys) = 2
    /\ \E i, j \in 2..Len(tests) :
          /\ i < j
          /\ tests[i].package = tests[j].package
          /\ tests[j].package /= ""

\* What reduce_provides returns if the HashMap yields its groups in the
\* given order.
ReducedInOrder(order) ==
    LET d == DedupInOrder(orig, order)
        reduced == RemoveProvided(d, Provided(d))
    IN [reduced |-> reduced, provides |-> FinalProvides(reduced, RevProvides(d))]

\* What collapse_features returns.
Collapsed ==
    [reduced |-> CollapsedFeaturesWithDeps(orig),
     provides |-> CollapsedProvides(orig)]

\* The packages and the features of the tests that come of a result.
DescriptorsOf(r) ==
    LET keys == SortedSeq(DOMAIN r.reduced)
        order == TestOrder(r.reduced, r.provides)
    IN [packages |-> [i \in 1..Len(keys) |->
                         PackageOf(r.reduced, r.provides, keys[i])],
        tests |-> [n \in 1..Len(order) |-> order[n]]]

Descriptors ==
    [packages |-> packages,
     tests |-> [n \in 1..(Len(tests) - 1) |->
                   <<tests[n + 1].package, tests[n + 1].feature>>]]

\* C20: whatever order the HashMap yields the signature groups in, the
\* rewritten graph, the reduced graph and the provides map are the same,
\* and so are the packages and tests that are written from them.
C20_Deterministic ==
    \A order \in IterationOrders(FeaturesRevDeps(orig)) :
        /\ pc \in {"deduped", "extracted"} =>
              features_with_deps = DedupInOrder(orig, order)
        /\ pc = "done" =>
              /\ features_with_deps = ReducedInOrder(order).reduced
              /\ provides = ReducedInOrder(order).provides
        /\ pc = "emitted" =>
              Descriptors \in {DescriptorsOf(ReducedInOrder(order)),
                               DescriptorsOf(Collapsed)}

\* reduce_provides has returned for a graph with three signature groups,
\* one of which has two features.
C20_Witness ==
    /\ pc = "done"
    /\ Cardinality(FeaturesRevDeps(orig)) >= 2
    /\ \E grp \in FeaturesRevDeps(orig) : Len(grp) = 2
    /\ \E grp \in FeaturesRevDeps(orig) : Len(grp) = 1

\* One of the orders of IterationOrders(S).
RECURSIVE SomeOrder(_)
SomeOrder(S) ==
    IF S = {} THEN <<>>
    ELSE LET x == CHOOSE y \in S : TRUE IN <<x>> \o SomeOrder(S \ {x})

\* The graph after the dedup step (the same for every iteration order).
PostDedup == DedupInOrder(orig, SomeOrder(FeaturesRevDeps(orig)))

\* The packages that a package depends on: its required features, each
\* mapped to the package that is or provides it.
PackageEdge(k) == UNION {PackagesOf(r) : r \in Range(features_with_deps[k].ff)}

RECURSIVE PackageReachFrom(_, _)
PackageReachFrom(front, seen) ==
    LET new == front \ seen
    IN IF new = {} THEN seen
       ELSE PackageReachFrom(UNION {PackageEdge(k) : k \in new}, seen \cup new)

\* The external deps pulled in by installing the package that is or
\* provides f.
InstalledDeps(f) ==
    UNION {Range(features_with_deps[k].dd) :
              k \in PackageReachFrom(PackagesOf(f), {})}

\* The external deps of the transitive closure of f in the original graph.
OrigDeps(f) == UNION {Range(orig[x].dd) : x \in transitive_deps(orig, f)}

\* C22: reduce_provides preserves the dependency semantics: for every
\* feature f of the original graph, installing the surviving package that
\* is or provides f pulls in, through the packages of the required
\* features, exactly the external deps of f's transitive closure in the
\* original graph.
C22_Refinement ==
    pc = "done" =>
        \A f \in DOMAIN orig :
            /\ Cardinality(PackagesOf(f)) = 1
            /\ InstalledDeps(f) = OrigDeps(f)

\* A removed feature whose package reaches another package, with an
\* external dep pulled in.
C22_Witness ==
    /\ pc = "done"
    /\ \E f \in DOMAIN orig \ Keys :
          /\ Cardinality(PackageReachFrom(PackagesOf(f), {})) >= 2
          /\ InstalledDeps(f) /= {}

\* The features that k provides directly: after the dedup, no external deps
\* and k as the only required feature.
DirectlyProvided(k) ==
    {f \in DOMAIN PostDedup : PostDedup[f] = Sig(<<k>>, <<>>)}

RECURSIVE ProvidedFrom(_, _)
ProvidedFrom(front, seen) ==
    LET new == front \ seen
    IN IF new = {} THEN seen
       ELSE ProvidedFrom(UNION {DirectlyProvided(x) : x \in new},
                         seen \cup new)

\* The recursive expansion of the provided-by relation under k.
ProvidedUnder(k) == ProvidedFrom(DirectlyProvided(k), {})

\* C23: the provides list of every surviving feature k is the full
\* recursive expansion of the provided-by relation (what k provides, what
\* those provide, and so on), in ascending order and without duplicates.
C23_ProvidesClosure ==
    pc = "done" =>
        \A k \in Keys :
            /\ k \in DOMAIN provides
            /\ Range(provides[k]) = ProvidedUnder(k)
            /\ \A i, j \in 1..Len(provides[k]) :
                   i < j => Rank(provides[k][i]) < Rank(provides[k][j])

\* A list of two or more that holds a feature provided only indirectly.
C23_Witness ==
    /\ pc = "done"
    /\ \E k \in Keys :
          /\ Len(provides[k]) >= 2
          /\ Range(provides[k]) \ DirectlyProvided(k) /= {}

\* C24: after the dedup a feature is removed exactly when it has no
\* external deps and exactly one required feature; every other feature is
\* a key of the reduced graph with its post-dedup signature.
C24_Removal ==
    pc = "done" =>
        \A f \in DOMAIN orig :
            /\ f \notin Keys <=>
                   (PostDedup[f].dd = <<>> /\ Len(PostDedup[f].ff) = 1)
            /\ f \in Keys => features_with_deps[f] = PostDedup[f]

\* One feature removed; one kept with external deps and a single required
\* feature.
C24_Witness ==
    /\ pc = "done"
    /\ DOMAIN orig \ Keys /= {}
    /\ \E k \in Keys :
          features_with_deps[k].dd /= <<>> /\ Len(features_with_deps[k].ff) = 1

\* A non-base feature that, after the dedup, requires nothing and has no
\* external deps.
EmptyFeatures == {f \in DOMAIN orig \ {""} : PostDedup[f] = Sig(<<>>, <<>>)}

\* C25: a non-base feature that after the dedup has neither external deps
\* nor required features makes the assertion fail and the run abort with
\* nothing emitted; the assertion never fails for a graph in which every
\* non-base feature without external deps requires at least one feature.
C25_Assertion ==
    /\ pc = "aborted" =>
           EmptyFeatures /= {} /\ provides = <<>> /\ packages = <<>>
    /\ pc \in {"extracted", "done"} => EmptyFeatures = {}
    /\ (\A f \in DOMAIN orig \ {""} :
            orig[f].dd = <<>> => orig[f].ff /= <<>>) => pc /= "aborted"

\* The run aborted on a feature that is neither the base feature nor one of
\* its duplicates.
C25_Witness ==
    /\ pc = "aborted"
    /\ \E f \in DOMAIN orig \ {""} :
          orig[f] = Sig(<<>>, <<>>) /\ orig[""] /= orig[f]

\* C27: the provides map of reduce_provides and of collapse_features has
\* exactly the keys of the graph it comes with, so the lookup for each
\* package and the assertion after the loop never fail.
C27_SameKeys ==
    /\ pc \in {"done", "collapsed", "emitted", "failed"} =>
           DOMAIN provides = Keys
    /\ pc /= "panicked"

\* Every package was emitted although a key of the local map was removed.
C27_Witness ==
    /\ pc = "emitted"
    /\ DOMAIN rev_provides \ Keys /= {}
    /\ {packages[i].name : i \in 1..Len(packages)} = Keys

----------------------------------------------------------------------------
(* Properties of the known-broken flag *)

\* The values the configuration gives to f and to the features f requires,
\* recursively.
ExplicitValues(f) ==
    {marked[g][1] : g \in {x \in {f} \cup Reach(orig, f) : marked[x] /= <<>>}}

Conflicting(f) == ExplicitValues(f) = {TRUE, FALSE}

\* C17: if the values that reach a feature disagree, with each other or
\* with its own override, the run fails at the first such feature it
\* writes a test for, with an error that names a feature at which the
\* values meet and the values; no test is written for such a feature, and
\* a run that writes all tests has met no conflict.
C17_Conflict ==
    /\ pc = "emitted" => \A f \in DOMAIN orig : ~Conflicting(f)
    /\ pc = "failed" =>
          /\ error /= <<>>
          /\ ~error[1].ok
          /\ error[1].k \in DOMAIN orig
          /\ Conflicting(error[1].k)
          /\ error[1].vv = {TRUE, FALSE}
          /\ Len(tests) < 1 + Cardinality(DOMAIN orig)
    /\ \A i \in 2..Len(tests) : ~Conflicting(tests[i].feature)

\* The run has failed after it wrote a test, at a feature that has no
\* override of its own and gets two values from the features it requires.
C17_Witness ==
    /\ pc = "failed"
    /\ Len(tests) >= 2
    /\ marked[error[1].k] = <<>>
    /\ Len(orig[error[1].k].ff) = 2

\* C18: the test of a feature is flaky if and only if the feature or a
\* feature it requires, recursively, is marked broken; with no override on
\* any of them it is not flaky.
C18_Flag ==
    \A i \in 2..Len(tests) :
        /\ tests[i].flaky <=> TRUE \in ExplicitValues(tests[i].feature)
        /\ ExplicitValues(tests[i].feature) = {} => ~tests[i].flaky

\* A flaky test of a feature that has no override and gets the value from
\* a feature it does not require directly.
C18_Witness ==
    /\ pc = "emitted"
    /\ \E i \in 2..Len(tests) :
          LET f == tests[i].feature
          IN /\ tests[i].flaky
             /\ marked[f] = <<>>
             /\ \A g \in Range(orig[f].ff) : marked[g] = <<>>
             /\ \E g \in Reach(orig, f) : marked[g] = <<TRUE>>

----------------------------------------------------------------------------
(* Properties of the files *)

\* C19: in a run that has failed, <pkg_srcdir>/debian is as it was before
\* the run, and so is every file that the overlay directory held before
\* the run.
C19_AllOrNothing ==
    pc = "failed" =>
        /\ debian = "old"
        /\ \A f \in DOMAIN overlay_dir : overlay_dir[f] /= "overwritten"

\* The files the overlay directory held before the run.
Supplied == {f \in DOMAIN overlay_dir : overlay_dir[f] /= "new"}

\* C30: a file that the overlay directory supplied is never written over
\* with generated content: a generated file of a name that is there
\* already goes to the hint file of that name (in place of a stale one) and
\* the supplied file stays as it is; the changelog is the only supplied
\* file that is edited in place; and the write-back copies nothing but the
\* hint files made in this run and, if it was regenerated, the changelog.
C30_OverlayKept ==
    /\ pc \in {"generated", "reconciled", "written back"} =>
          \A i \in 1..Len(GeneratedFiles) :
              LET name == GeneratedFiles[i]
              IN IF name \in Supplied
                 THEN /\ tempdir[name] = "old"
                      /\ tempdir[HintName(name)] = "new"
                      /\ HintName(name) \in Range(new_hints)
                 ELSE /\ tempdir[name] = "new"
                      /\ HintName(name) \notin Range(new_hints)
    /\ \A f \in Supplied \cap DOMAIN tempdir :
          tempdir[f] /= "old" =>
              \/ f = "changelog" /\ ~options.changelog_ready
              \/ \E i \in 1..Len(GeneratedFiles) :
                    /\ f = HintName(GeneratedFiles[i])
                    /\ GeneratedFiles[i] \in Supplied
    /\ \A f \in DOMAIN overlay_dir :
          overlay_dir[f] /= "old" =>
              /\ options.overlay_write_back
              /\ \/ f \in Range(new_hints)
                 \/ f = "changelog" /\ ~options.changelog_ready
    /\ pc \in {"written back", "renamed"} /\ options.overlay_write_back
       /\ options.overlay = "dir" =>
          {f \in DOMAIN overlay_dir : overlay_dir[f] /= "old"}
              = Range(HintsToWriteBack)

\* The overlay supplied debian/copyright, a stale hint file for it and a
\* changelog: the run has left the first as it was and has written the
\* other two back.
C30_Witness ==
    /\ pc = "written back"
    /\ {"copyright", "copyright.debcargo.hint"} \subseteq DOMAIN tempdir
    /\ {"copyright", "copyright.debcargo.hint", "changelog"}
           \subseteq DOMAIN overlay_dir
    /\ tempdir["copyright"] = "old"
    /\ tempdir["copyright.debcargo.hint"] = "new"
    /\ overlay_dir["copyright"] = "old"
    /\ overlay_dir["copyright.debcargo.hint"] = "overwritten"
    /\ overlay_dir["changelog"] = "overwritten"
    /\ "control" \notin DOMAIN overlay_dir

----------------------------------------------------------------------------
(* Properties of the changelog reconciler *)

Released(e) == e.dist /= DEFAULT_DIST

\* The revision the law gives the entry at position i: one more than the
\* revision of the entry beneath it if that has the same upstream version,
\* and 1 otherwise.
LawfulRevision(log, i) ==
    IF i < Len(log) /\ log[i + 1].up = log[i].up
    THEN log[i + 1].rev + 1
    ELSE 1

\* C7: the entry a run prepends has the revision of the previous top entry
\* plus one if the upstream versions are equal and revision 1 otherwise,
\* and the revisions of successive released entries of one upstream
\* version increase by exactly one.
C7_RevisionBump ==
    /\ lastrun = "prepend" => changelog[1].rev = LawfulRevision(changelog, 1)
    /\ \A i \in 1..(Len(changelog) - 1) :
          (/\ Released(changelog[i])
           /\ Released(changelog[i + 1])
           /\ changelog[i].up = changelog[i + 1].up)
          => changelog[i].rev = changelog[i + 1].rev + 1

\* Two released entries of one upstream version, the newer with revision 2.
C7_Witness ==
    /\ Len(changelog) = 2
    /\ Released(changelog[1])
    /\ Released(changelog[2])
    /\ changelog[1].up = changelog[2].up
    /\ changelog[1].rev = 2

\* A step of a run that took the given branch.
RunStep(branch) == lastrun' = branch /\ changelog' /= <<>> /\ changelog /= <<>>

IsPrefixedBy(items, prefix, rest) == items = prefix \o rest

\* C8 as stated: a run on the unreleased entry of somebody else puts the
\* new autogenerated line-item and a sub-heading naming the current author
\* before the existing line-items, which stay as they are.
C8_AsStatedStep ==
    RunStep("other author") =>
        LET old == changelog[1]
            new == changelog'[1]
        IN \E n \in 0..Len(new.items) :
              /\ IsPrefixedBy(new.items, SubSeq(new.items, 1, n), old.items)
              /\ AutogeneratedItem(new.up) \in Range(SubSeq(new.items, 1, n))
              /\ Heading(new.maintainer.name) \in Range(SubSeq(new.items, 1, n))

C8_AsStated == [][C8_AsStatedStep]_vars

\* C8 as amended: the sub-heading names the previous author, whose
\* line-items follow it unchanged; the new autogenerated line-item and a
\* blank line precede it, after the team-upload marker if the run adds one,
\* and the entry itself is now signed by the current author.
C8_OtherAuthorStep ==
    RunStep("other author") =>
        LET old == changelog[1]
            new == changelog'[1]
            lines == <<AutogeneratedItem(new.up), BlankItem,
                       Heading(old.maintainer.name)>>
        IN /\ new.maintainer /= old.maintainer
           /\ \/ new.items = lines \o old.items
              \/ new.items = <<COMMENT_TEAM_UPLOAD>> \o lines \o old.items

C8_OtherAuthor == [][C8_OtherAuthorStep]_vars

\* Bob has run the tool on the unreleased entry of Alice: the marker, the
\* three new lines and the line-item of Alice.
C8_Witness ==
    /\ lastrun = "other author"
    /\ changelog[1].maintainer = Bob
    /\ Len(changelog[1].items) = 5
    /\ changelog[1].items[4] = Heading("Alice")
    /\ AutogeneratedRe(changelog[1].items[5])

\* The line-items a run of the same author leaves, the team-upload marker
\* aside: the first line-item that matches the pattern is replaced, or the
\* new one is appended.
SameAuthorItems(old, auto) ==
    LET hits == {i \in 1..Len(old) : AutogeneratedRe(old[i])}
    IN IF hits = {} THEN old \o <<auto>>
       ELSE [i \in 1..Len(old) |->
                IF i \in hits /\ (\A j \in hits : i <= j) THEN auto ELSE old[i]]

\* C9 as stated: a run of the author of the unreleased entry replaces the
\* first matching line-item or appends the new one, and changes nothing
\* else: the count is unchanged on a match and grows by one otherwise.
C9_AsStatedStep ==
    RunStep("same author") =>
        changelog'[1].items =
            SameAuthorItems(changelog[1].items,
                            AutogeneratedItem(changelog'[1].up))

C9_AsStated == [][C9_AsStatedStep]_vars

\* C9 as amended: besides that, the run puts the team-upload marker first
\* when the author is no uploader and no line-item is the marker, which
\* moves every line-item by one place and adds one to the count.
C9_SameAuthorStep ==
    RunStep("same author") =>
        LET new == changelog'[1]
            kept == SameAuthorItems(changelog[1].items,
                                    AutogeneratedItem(new.up))
            teamUpload == /\ new.maintainer \notin Uploaders
                          /\ \A i \in 1..Len(kept) : kept[i] /= COMMENT_TEAM_UPLOAD
        IN /\ new.maintainer = changelog[1].maintainer
           /\ new.items = IF teamUpload THEN <<COMMENT_TEAM_UPLOAD>> \o kept
                          ELSE kept

C9_SameAuthor == [][C9_SameAuthorStep]_vars

\* The author has run the tool again on an entry that holds a hand-written
\* line-item besides the autogenerated one.
C9_Witness ==
    /\ lastrun = "same author"
    /\ \E i, j \in 1..Len(changelog[1].items) :
          /\ changelog[1].items[i] = AutogeneratedItem(changelog[1].up)
          /\ changelog[1].items[j].t = "text"

\* The branches a run may take.
RunBranches == {"prepend", "same author", "other author"}

\* The changelog after a run of the given author on the given version.
AfterRun(log, author, debian_version) ==
    <<NewEntry(log, author, debian_version)>>
    \o Reconciled(log, author, debian_version).old

ItemsOf(log) == [i \in 1..Len(log) |-> log[i].items]

Occurrences(items, item) ==
    Cardinality({i \in 1..Len(items) : items[i] = item})

\* C11: right after a run, a second run of the same author on the same
\* version leaves the number of entries and the line-items of every entry
\* as they are: the autogenerated line-item and the team-upload marker are
\* not written a second time.
C11_Idempotent ==
    lastrun \in RunBranches =>
        LET again == AfterRun(changelog, changelog[1].maintainer, changelog[1].up)
        IN /\ Len(again) = Len(changelog)
           /\ ItemsOf(again) = ItemsOf(changelog)
           /\ again[1].rev = changelog[1].rev

\* Bob, who is no uploader, has run the tool twice on a released changelog:
\* the second run found his own unreleased entry, with the marker and the
\* autogenerated line-item once each.
C11_Witness ==
    /\ lastrun = "same author"
    /\ edits = 0
    /\ Len(changelog) = 2
    /\ changelog[1].maintainer = Bob
    /\ Occurrences(changelog[1].items, COMMENT_TEAM_UPLOAD) = 1
    /\ Occurrences(changelog[1].items, AutogeneratedItem(changelog[1].up)) = 1
    /\ Len(changelog[1].items) = 2

\* The line-items a run starts from: those of the entry it writes over, or
\* none if it prepends an entry.
ItemsBefore == IF lastrun' = "prepend" THEN <<>> ELSE changelog[1].items

\* C12: after a run of an author who is no uploader the top entry has the
\* team-upload marker; a run inserts the marker only for such an author and
\* only if no line-item is the marker already, and then as the first
\* line-item; a run of an uploader inserts none.
C12_TeamUploadStep ==
    lastrun' \in RunBranches =>
        LET new == changelog'[1]
            had == Occurrences(ItemsBefore, COMMENT_TEAM_UPLOAD)
            has == Occurrences(new.items, COMMENT_TEAM_UPLOAD)
        IN /\ new.maintainer \notin Uploaders => has >= 1
           /\ has > had =>
                 /\ new.maintainer \notin Uploaders
                 /\ had = 0
                 /\ has = 1
                 /\ new.items[1] = COMMENT_TEAM_UPLOAD
           /\ new.maintainer \in Uploaders => has = had
           /\ has >= had

C12_TeamUpload == [][C12_TeamUploadStep]_vars

\* Bob, who is no uploader, has run the tool on the unreleased entry of
\* Alice, who is one: the marker is the first line-item, once.
C12_Witness ==
    /\ lastrun = "other author"
    /\ changelog[1].maintainer = Bob
    /\ changelog[1].items[1] = COMMENT_TEAM_UPLOAD
    /\ Occurrences(changelog[1].items, COMMENT_TEAM_UPLOAD) = 1
    /\ Heading("Alice") \in Range(changelog[1].items)

\* C13: after a run the file holds the text of the new top entry followed
\* by the text of the older entries and nothing else, whether the run made
\* the file longer or shorter.
C13_Rewrite ==
    lastrun \in RunBranches =>
        /\ file = Render(changelog[1]) \o RenderAll(Tail(changelog))
        /\ Len(file) = Len(Render(changelog[1])) + Len(RenderAll(Tail(changelog)))

\* The run wrote less than the file held, above an older entry, and cut
\* the rest off.
C13_Witness ==
    /\ lastrun \in RunBranches
    /\ truncated > 0
    /\ Len(changelog) = 2

\* C10: no step modifies or removes a released entry, whatever its
\* line-items hold: it stays where it is, counted from the oldest entry.
C10_ReleasedStep ==
    \A i \in 1..Len(changelog) :
        Released(changelog[i]) =>
            LET j == Len(changelog') - (Len(changelog) - i)
            IN j >= 1 /\ changelog'[j] = changelog[i]

C10_ReleasedImmutable == [][C10_ReleasedStep]_vars

\* The text of the file after its first entry.
AfterFirst(text, log) == SubSeq(text, Len(Render(log[1])) + 1, Len(text))

\* C26: a run changes the history file only at its top: if the top entry
\* is released or the file is empty, the whole previous content follows
\* the new entry unchanged and there is one entry more; if the top entry is
\* unreleased, the content after the first entry follows the rewritten
\* entry unchanged and the number of entries is the same.
C26_FrameStep ==
    lastrun' \in {"prepend", "same author", "other author"} =>
        IF changelog = <<>> \/ Released(changelog[1])
        THEN /\ Len(changelog') = Len(changelog) + 1
             /\ Tail(changelog') = changelog
             /\ AfterFirst(file', changelog') = file
        ELSE /\ Len(changelog') = Len(changelog)
             /\ Tail(changelog') = Tail(changelog)
             /\ AfterFirst(file', changelog') = AfterFirst(file, changelog)

C26_Frame == [][C26_FrameStep]_vars

\* The frame that the runs do keep: the branch is taken on the sentinel
\* in the text of the first entry.
C26_TextStep ==
    lastrun' \in {"prepend", "same author", "other author"} =>
        IF ~WritesOver(changelog)
        THEN /\ Len(changelog') = Len(changelog) + 1
             /\ Tail(changelog') = changelog
             /\ AfterFirst(file', changelog') = file
        ELSE /\ Len(changelog') = Len(changelog)
             /\ Tail(changelog') = Tail(changelog)
             /\ AfterFirst(file', changelog') = AfterFirst(file, changelog)

C26_Text == [][C26_TextStep]_vars

\* C29: a run that writes over the top entry takes its revision from the
\* entry beneath it (that revision plus one for the same upstream version,
\* 1 otherwise or without such an entry), not from the entry it writes
\* over; so a rerun for the same upstream version leaves the revision of
\* the top entry as it was.
C29_RecomputedStep ==
    lastrun' \in {"same author", "other author"} =>
        /\ changelog'[1].rev = LawfulRevision(changelog', 1)
        /\ changelog'[1].up = changelog[1].up =>
               changelog'[1].rev = changelog[1].rev

C29_Recomputed == [][C29_RecomputedStep]_vars

\* After a run that wrote over the top entry, the revision is 2, one more
\* than that of the entry beneath.
C29_Witness ==
    /\ lastrun \in {"same author", "other author"}
    /\ Len(changelog) >= 2
    /\ changelog[1].up = changelog[2].up
    /\ changelog[2].rev = 1
    /\ changelog[1].rev = 2

\* C21 as stated: a malformed entry at whatever position of the history
\* file makes the run fail with a parse error, and the file is not
\* rewritten.
C21_AsStatedStep ==
    (\E i \in 1..Len(changelog) : Malformed(changelog[i])) =>
        pc' = "failed" /\ error' /= <<>> /\ file' = file

C21_AsStated == [][C21_AsStatedStep]_vars

\* The positions of the entries the reconciliation parses: the first, and
\* the second if the text of the first has the sentinel.
ParsedPositions(log) ==
    {i \in 1..Len(log) :
        i = 1 \/ (i = 2 /\ EntryContainsDefaultDist(log[1]))}

\* C21: a malformed entry at a position the reconciliation parses (the
\* first entry, and the second if the first is written over) makes the run
\* fail with a parse error that carries the text of the first such entry,
\* and the file is not rewritten; malformed entries at other positions do
\* not fail the run, which rewrites the file and keeps them as they are.
C21_ParsedStep ==
    LET bad == {i \in ParsedPositions(changelog) : Malformed(changelog[i])}
    IN /\ bad /= {} =>
             /\ pc' = "failed"
             /\ \E i \in bad :
                   /\ \A j \in bad : i <= j
                   /\ error' = <<[parse |-> changelog[i]]>>
             /\ file' = file
             /\ changelog' = changelog
       /\ bad = {} =>
             /\ pc' = "idle"
             /\ lastrun' \in {"prepend", "same author", "other author"}
             /\ file' = Render(changelog'[1]) \o RenderAll(Tail(changelog'))
             /\ \A i \in 1..Len(changelog) :
                   (i \notin ParsedPositions(changelog)
                    \/ ~EntryContainsDefaultDist(changelog[1]))
                   => changelog'[Len(changelog') - (Len(changelog) - i)]
                        = changelog[i]

C21_Parsed == [][C21_ParsedStep]_vars

\* The run failed on the second entry, below a first entry that parses and
\* is written over.
C21_Witness ==
    /\ pc = "failed"
    /\ Len(changelog) >= 2
    /\ ~Malformed(changelog[1])
    /\ error = <<[parse |-> changelog[2]]>>
    /\ file = RenderAll(changelog)

=============================================================================
